---- MODULE Spec2Model ----
(***************************************************************************)
(* cpe-guesser-go: the import pipeline (runImport, extract, canonize) and  *)
(* the search handlers (exactSearch, partialSearch, handleSearch,          *)
(* handleUnique) over one shared Redis/Valkey database, and the server of  *)
(* main.go's first version, which searches the sorted sets through the     *)
(* keys tmp:exact and tmp:partial.                                         *)
(*                                                                         *)
(* Strings are sequences of one-character strings, so that lowercasing,    *)
(* splitting on ":" and "_", joining and glob matching are computed.       *)
(* The database is one keyspace: a function from key names to values, a    *)
(* value being a set ("w:<token>") or a sorted set ("s:<token>",           *)
(* "rank:cpe").  A key exists exactly when it is in the function's domain. *)
(***************************************************************************)
EXTENDS Integers, Sequences, FiniteSets, TLC

(* ------------------------------ bounds --------------------------------- *)

\* Records per dictionary document.
MaxRecords == 3

\* Import runs per behaviour.
MaxRuns == 2

\* Import runs per behaviour in which requests are served as well.
ServeRuns == 1

\* Keywords per query.
MaxQuery == 2

\* Places of one request at which the store fails.
MaxFailing == 2

\* Requests the sorted-set server handles at the same time.
MaxRequests == 2

\* Records per pipeline flush.  The source sets 5000 (batchSize); the model
\* scales it down so that full batches, a final partial batch and an empty
\* final batch all occur within MaxRecords records.
batchSize == 2

(* ------------------------------ strings -------------------------------- *)

\* strings.ToLower on one character, over the letters the model uses.
LowerChar(c) ==
    CASE c = "A" -> "a"
      [] c = "P" -> "p"
      [] c = "T" -> "t"
      [] OTHER   -> c

\* strings.ToLower
ToLower(str) == [i \in 1..Len(str) |-> LowerChar(str[i])]

\* strings.Split(str, sep) for a one-character separator: always at least
\* one field, and the empty string splits into one empty field.
RECURSIVE SplitFrom(_, _, _, _)
SplitFrom(str, sep, i, cur) ==
    IF i > Len(str) THEN <<cur>>
    ELSE IF str[i] = sep THEN <<cur>> \o SplitFrom(str, sep, i + 1, <<>>)
    ELSE SplitFrom(str, sep, i + 1, Append(cur, str[i]))

Split(str, sep) == SplitFrom(str, sep, 1, <<>>)

\* strings.Join(parts, sep)
RECURSIVE Join(_, _)
Join(parts, sep) ==
    IF Len(parts) = 0 THEN <<>>
    ELSE IF Len(parts) = 1 THEN parts[1]
    ELSE parts[1] \o <<sep>> \o Join(Tail(parts), sep)

\* The elements of a sequence.
Range(seq) == {seq[i] : i \in 1..Len(seq)}

(* --------------------------- extract, canonize ------------------------- *)

extract(cpe) ==
    LET parts == Split(cpe, ":") IN
    IF Len(parts) < 5
    THEN [vendor |-> <<>>, product |-> <<>>, cpeline |-> cpe]
    ELSE [vendor  |-> parts[4],
          product |-> parts[5],
          cpeline |-> Join(SubSeq(parts, 1, 5), ":")]

canonize(val) == Split(ToLower(val), "_")

(* ------------------------------ the store ------------------------------ *)

\* Key names.
WKey(word) == <<"w", ":">> \o word
SKey(word) == <<"s", ":">> \o word
RankKey == <<"r", "a", "n", "k", ":", "c", "p", "e">>

\* A database with no key (a fresh database, or one after FLUSHDB).
EmptyDB == [k \in {} |-> {}]

\* DBSIZE: the number of keys.
DBSize(d) == Cardinality(DOMAIN d)

\* SADD key member
SAdd(d, key, member) ==
    LET old == IF key \in DOMAIN d THEN d[key].members ELSE {} IN
    [k \in DOMAIN d \cup {key} |->
        IF k = key THEN [type |-> "set", members |-> old \cup {member}]
        ELSE d[k]]

\* The members of a sorted set value; those of a missing key are none.
ZMembers(d, key) == IF key \in DOMAIN d THEN DOMAIN d[key].scores ELSE {}

\* ZINCRBY key incr member: a missing member counts from 0.
ZIncrBy(d, key, incr, member) ==
    LET old == ZMembers(d, key)
        was == IF member \in old THEN d[key].scores[member] ELSE 0
    IN  [k \in DOMAIN d \cup {key} |->
            IF k = key
            THEN [type   |-> "zset",
                  scores |-> [m \in old \cup {member} |->
                                 IF m = member THEN was + incr
                                 ELSE d[key].scores[m]]]
            ELSE d[k]]

\* One queued pipeline command applied to the database.
Apply(d, cmd) ==
    IF cmd.op = "SAdd" THEN SAdd(d, cmd.key, cmd.member)
    ELSE ZIncrBy(d, cmd.key, cmd.incr, cmd.member)

\* The commands of a pipeline applied in order.
RECURSIVE ApplyAll(_, _)
ApplyAll(d, cmds) ==
    IF Len(cmds) = 0 THEN d ELSE ApplyAll(Apply(d, Head(cmds)), Tail(cmds))

(* ---------------------------- the dictionary --------------------------- *)

\* cpe:2.3-style names, shortened to "c:2:a:<vendor>:<product>:<version>":
\* vendor "Ap" with product "tom", vendor "ap" with product "s_T", and a name
\* of fewer than five fields.  A document may hold the same name repeatedly.
RecTom == <<"c", ":", "2", ":", "a", ":", "A", "p", ":", "t", "o", "m", ":", "1">>
RecST  == <<"c", ":", "2", ":", "a", ":", "a", "p", ":", "s", "_", "T", ":", "1">>
RecBad == <<"c", ":", "2", ":", "x">>

Dictionary == {RecTom, RecST, RecBad}

\* The sequences of at most n elements of S.
RECURSIVE SeqsUpTo(_, _)
SeqsUpTo(S, n) ==
    IF n = 0 THEN {<<>>}
    ELSE LET shorter == SeqsUpTo(S, n - 1) IN
         shorter \cup {Append(q, x) : q \in {p \in shorter : Len(p) = n - 1}, x \in S}

(* ------------------------------ the queries ---------------------------- *)

\* Keywords: one that lowercases to the token "ap", the token "tom", one
\* that lowercases to "t" (a token of s_T and a proper substring of "tom"),
\* a keyword that is a glob metacharacter, the empty keyword, and a keyword
\* with an underscore (the product name of RecST as it is written).
KwAP    == <<"A", "P">>
KwTom   == <<"t", "o", "m">>
KwT     == <<"T">>
KwQuery == <<"?">>
KwEmpty == <<>>
KwST    == <<"s", "_", "T">>

Keywords == {KwAP, KwTom, KwT, KwQuery, KwEmpty, KwST}

\* The "query" arrays a request body may carry.
Queries == SeqsUpTo(Keywords, MaxQuery)

\* Request bodies: one that does not decode, and {"query": [...]}.
BadJSON == [decodes |-> FALSE, query |-> <<>>]
Bodies == {BadJSON} \cup {[decodes |-> TRUE, query |-> q] : q \in Queries}

(* ------------------------------ store reads ---------------------------- *)

\* SMEMBERS key: a missing key is the empty set.
SMembers(d, key) == IF key \in DOMAIN d THEN d[key].members ELSE {}

\* SINTER taken for SUNION.
SUnion(d, keys) == UNION {SMembers(d, keys[i]) : i \in 1..Len(keys)}

\* SINTER key1 key2 ...
SInter(d, keys) == {m \in SMembers(d, keys[1]) : \A i \in 1..Len(keys) : m \in SMembers(d, keys[i])}

\* ZSCORE key member: the error redis.Nil when the key or the member is
\* missing, and the score otherwise.
ZScore(d, key, member) ==
    IF member \in ZMembers(d, key)
    THEN [nil |-> FALSE, val |-> d[key].scores[member]]
    ELSE [nil |-> TRUE, val |-> 0]

\* Redis glob matching (stringmatchlen) of pat[i..] against str[j..]: "*" is
\* any run of characters, "?" any one character, anything else itself.  The
\* model's alphabet has no "[" and no backslash.
RECURSIVE GlobFrom(_, _, _, _)
GlobFrom(pat, i, str, j) ==
    IF i > Len(pat) THEN j > Len(str)
    ELSE IF pat[i] = "*"
         THEN \/ GlobFrom(pat, i + 1, str, j)
              \/ j <= Len(str) /\ GlobFrom(pat, i, str, j + 1)
    ELSE IF j > Len(str) THEN FALSE
    ELSE IF pat[i] = "?" \/ pat[i] = str[j] THEN GlobFrom(pat, i + 1, str, j + 1)
    ELSE FALSE

GlobMatch(pat, str) == GlobFrom(pat, 1, str, 1)

\* SCAN 0 MATCH pattern, iterated to the end: the keys matching the pattern.
Scan(d, pattern) == {k \in DOMAIN d : GlobMatch(pattern, k)}

(* ------------------------------- search -------------------------------- *)

\* The orders in which a Redis set reply or a Go map may be enumerated.
RECURSIVE Perms(_)
Perms(S) ==
    IF S = {} THEN {<<>>}
    ELSE UNION {{<<x>> \o p : p \in Perms(S \ {x})} : x \in S}

\* The comparison with the inequality turned round.
lessAscending(a, b) == a[1] < b[1]

\* The comparison handed to sort.Slice: result[i][0] > result[j][0].
less(a, b) == a[1] > b[1]

\* sort.Slice, as an insertion sort.  sort.Slice is not stable; the callers
\* hand it every enumeration order, which yields every order it may produce.
RECURSIVE Insert(_, _)
Insert(sorted, x) ==
    IF Len(sorted) = 0 THEN <<x>>
    ELSE IF less(x, Head(sorted)) THEN <<x>> \o sorted
    ELSE <<Head(sorted)>> \o Insert(Tail(sorted), x)

RECURSIVE SortSlice(_)
SortSlice(list) ==
    IF Len(list) = 0 THEN <<>>
    ELSE Insert(SortSlice(SubSeq(list, 1, Len(list) - 1)), list[Len(list)])

\* "Get rank for each CPE": the pair {rank, cpe}, rank 0 when there is none.
WithRank(d, cpes) ==
    [i \in 1..Len(cpes) |->
        LET rank == ZScore(d, RankKey, cpes[i]) IN
        IF rank.nil THEN <<0, cpes[i]>> ELSE <<rank.val, cpes[i]>>]

\* The places where a search calls the store.  A request is handled with a
\* set of failing places: the first call made at a failing place fails.
Sites == {"exact.members", "exact.zscore", "partial.scan", "partial.smembers",
          "partial.zscore"}

Failings == {f \in SUBSET Sites : Cardinality(f) <= MaxFailing}

\* What a search function returns: the result (nil is the empty list), the
\* error, and the number of store calls it issued.
Outcome(res, err, calls) == [res |-> res, err |-> err, calls |-> calls]

\* The key of the first token the import's canonize gives for the keyword.
ExactKeyCanonized(w) == WKey(canonize(w)[1])

\* "Create keys for each word": "w:" + strings.ToLower(w)
ExactKey(w) == WKey(ToLower(w))

\* exactSearch past its check for no words: keys, intersection, ranks, sort.
ExactLookup(d, words, failing) ==
    LET keys == [i \in 1..Len(words) |-> ExactKey(words[i])]
        cpes == IF Len(keys) = 1 THEN SMembers(d, keys[1]) ELSE SInter(d, keys)
    IN  IF "exact.members" \in failing THEN {Outcome(<<>>, TRUE, 1)}
        ELSE IF cpes = {} THEN {Outcome(<<>>, FALSE, 1)}
        ELSE IF "exact.zscore" \in failing THEN {Outcome(<<>>, TRUE, 2)}
        ELSE {Outcome(SortSlice(WithRank(d, order)), FALSE, 1 + Cardinality(cpes)) :
                 order \in Perms(cpes)}

\* exactSearch without its check for no words: SINTER without keys is an
\* error reply.
exactSearchUnguarded(d, words, failing) ==
    IF Len(words) = 0 THEN {Outcome(<<>>, TRUE, 1)}
    ELSE ExactLookup(d, words, failing)

\* exactSearch: its possible outcomes.
exactSearch(d, words, failing) ==
    IF Len(words) = 0 THEN {Outcome(<<>>, FALSE, 0)}
    ELSE ExactLookup(d, words, failing)

\* The loop of partialSearch over words[i..]: per word one SCAN and one
\* SMEMBERS per matching key, collected in cpeMap.
RECURSIVE PartialLoop(_, _, _, _, _, _)
PartialLoop(d, words, i, cpeMap, calls, failing) ==
    IF i > Len(words) THEN [err |-> FALSE, cpeMap |-> cpeMap, calls |-> calls]
    ELSE
    LET pattern == <<"w", ":", "*">> \o ToLower(words[i]) \o <<"*">>
        found   == Scan(d, pattern)
    IN  IF "partial.scan" \in failing
        THEN [err |-> TRUE, cpeMap |-> cpeMap, calls |-> calls + 1]
        ELSE IF found # {} /\ "partial.smembers" \in failing
        THEN [err |-> TRUE, cpeMap |-> cpeMap, calls |-> calls + 2]
        ELSE PartialLoop(d, words, i + 1,
                         cpeMap \cup UNION {SMembers(d, k) : k \in found},
                         calls + 1 + Cardinality(found), failing)

\* partialSearch: its possible outcomes.
partialSearch(d, words, failing) ==
    IF Len(words) = 0 THEN {Outcome(<<>>, FALSE, 0)}
    ELSE
    LET loop == PartialLoop(d, words, 1, {}, 0, failing) IN
        IF loop.err THEN {Outcome(<<>>, TRUE, loop.calls)}
        ELSE IF loop.cpeMap = {} THEN {Outcome(<<>>, FALSE, loop.calls)}
        ELSE IF "partial.zscore" \in failing THEN {Outcome(<<>>, TRUE, loop.calls + 1)}
        ELSE {Outcome(SortSlice(WithRank(d, order)), FALSE,
                      loop.calls + Cardinality(loop.cpeMap)) :
                 order \in Perms(loop.cpeMap)}

(* ------------------------------ the state ------------------------------ *)

VARIABLES
    db,          \* the Redis database (DB 8) both commands use
    pc,          \* where the import process is
    replace,     \* -replace flag of the current run
    update,      \* -update flag of the current run
    source,      \* the items the current run has decoded, in file order
    itemCount,   \* records processed so far in the current run
    pipe,        \* commands queued in the current pipeline
    dbSize,      \* DBSIZE as read at the start of the current run
    runs,        \* import runs started
    dbAtStart,   \* history: the database when the current run started
    events,      \* history: what the current run has done so far
    resp,        \* the server's response to the latest request
    reqs         \* the requests of the sorted-set server, each with its position

importVars == <<pc, replace, update, source, itemCount, pipe, dbSize, runs,
                dbAtStart, events>>
vars == <<db, importVars, resp, reqs>>

(* ------------------------------- import -------------------------------- *)

\* The commands one cpe23-item queues: per vendor word and per product word
\* an SADD and a ZINCRBY on the compatibility set, then one ZINCRBY on the
\* rank.
RECURSIVE WordCmds(_, _)
WordCmds(words, cpeline) ==
    IF Len(words) = 0 THEN <<>>
    ELSE << [op |-> "SAdd", key |-> WKey(Head(words)), incr |-> 0, member |-> cpeline],
            [op |-> "ZIncrBy", key |-> SKey(Head(words)), incr |-> 1, member |-> cpeline] >>
         \o WordCmds(Tail(words), cpeline)

\* The rank raised once per vendor word and per product word.
ItemCmdsRankPerWord(name) ==
    LET x     == extract(name)
        words == canonize(x.vendor) \o canonize(x.product)
    IN  WordCmds(words, x.cpeline)
        \o [i \in 1..Len(words) |->
               [op |-> "ZIncrBy", key |-> RankKey, incr |-> 1, member |-> x.cpeline]]

ItemCmds(name) ==
    LET x == extract(name) IN
    WordCmds(canonize(x.vendor), x.cpeline)
    \o WordCmds(canonize(x.product), x.cpeline)
    \o << [op |-> "ZIncrBy", key |-> RankKey, incr |-> 1, member |-> x.cpeline] >>

\* pipe.Exec that fails: the pipeline is not a transaction, so the server
\* may have executed any prefix of the queued commands (all of them when the
\* failure is in reading the replies, none when the connection was down).
ExecFailed(d, cmds) == {ApplyAll(d, SubSeq(cmds, 1, n)) : n \in 0..Len(cmds)}

\* A search function that was not called.
NotRun == [res |-> <<>>, err |-> FALSE, calls |-> -1]

\* No response is being written.
NoResp == [endpoint |-> "none", decodes |-> FALSE, query |-> <<>>, status |-> 0,
           kind |-> "none", body |-> <<>>, exact |-> NotRun, partial |-> NotRun]

\* The requests, numbered in the order of their arrival, and a request that
\* has not arrived.
Requests == 1..MaxRequests
NewReq == [pc |-> "new", decodes |-> FALSE, query |-> <<>>, res |-> <<>>,
           err |-> FALSE, status |-> 0]

Init ==
    /\ db = EmptyDB
    /\ pc = "idle"
    /\ replace = FALSE
    /\ update = FALSE
    /\ source = <<>>
    /\ itemCount = 0
    /\ pipe = <<>>
    /\ dbSize = 0
    /\ runs = 0
    /\ dbAtStart = EmptyDB
    /\ events = {}
    /\ resp = NoResp
    /\ reqs = [r \in Requests |-> NewReq]

\* The check with the negation of update dropped.
RefusesWithUpdate(size, rep, upd) == size > 0 /\ ~rep /\ upd

\* "Check existing keys": the run is refused.
RefusesToRun(size, rep, upd) == size > 0 /\ ~rep /\ ~upd

\* The flush done for update as well.
MustFlushOnUpdate(size, rep, upd) == size > 0 /\ (rep \/ upd)

\* "Flush if replace"
MustFlush(size, rep, upd) == size > 0 /\ rep

\* A flush that deletes the word sets only.
FlushWords(d) == [k \in {k \in DOMAIN d : k[1] # "w"} |-> d[k]]

\* FLUSHDB
FlushDB(d) == EmptyDB

\* runImport up to the check of the existing keys: flags, config, Ping,
\* DBSize, and the refusal to run over existing data.
StartImport(limit) ==
    /\ pc = "idle"
    /\ resp = NoResp
    /\ \A r \in Requests : reqs[r].pc = "new"
    /\ runs < limit
    /\ \E rep \in BOOLEAN, upd \in BOOLEAN, connected \in BOOLEAN :
          /\ replace' = rep
          /\ update' = upd
          /\ dbSize' = IF connected THEN DBSize(db) ELSE 0
          /\ pc' = IF ~connected THEN "fatal"
                   ELSE IF RefusesToRun(DBSize(db), rep, upd) THEN "fatal"
                   ELSE "download"
          /\ events' = IF ~connected THEN {"unreachable"}
                       ELSE IF RefusesToRun(DBSize(db), rep, upd) THEN {"refused"}
                       ELSE {}
    /\ runs' = runs + 1
    /\ source' = <<>>
    /\ itemCount' = 0
    /\ pipe' = <<>>
    /\ dbAtStart' = db
    /\ UNCHANGED <<db, resp, reqs>>

ImportStart == StartImport(MaxRuns)

\* Download if requested or missing: the file is fetched and decompressed,
\* or the existing file is used; a failed fetch is fatal.
Download ==
    /\ pc = "download"
    /\ \E needed \in BOOLEAN, ok \in BOOLEAN :
          /\ events' = IF needed THEN events \cup {"download"} ELSE events
          /\ pc' = IF needed /\ ~ok THEN "fatal" ELSE "flush"
    /\ UNCHANGED <<db, replace, update, source, itemCount, pipe, dbSize, runs, dbAtStart, resp, reqs>>

\* Flush if replace; then the file is opened (a failure to open is fatal).
Flush ==
    /\ pc = "flush"
    /\ \E ok \in BOOLEAN :
          IF MustFlush(dbSize, replace, update)
          THEN /\ events' = events \cup {"flush"}
               /\ db' = IF ok THEN FlushDB(db) ELSE db
               /\ pc' = IF ok THEN "loop" ELSE "fatal"
          ELSE /\ events' = events
               /\ db' = db
               /\ pc' = IF ok THEN "loop" ELSE "fatal"
    /\ UNCHANGED <<replace, update, source, itemCount, pipe, dbSize, runs, dbAtStart, resp, reqs>>

\* One cpe23-item of the document: its commands are queued, and every
\* batchSize items the pipeline is executed and replaced by a new one.
Item ==
    /\ pc = "loop"
    /\ itemCount < MaxRecords
    /\ \E name \in Dictionary :
       LET cmds == pipe \o ItemCmds(name) IN
       /\ source' = Append(source, name)
       /\ itemCount' = itemCount + 1
       /\ IF (itemCount + 1) % batchSize = 0
          THEN \E ok \in BOOLEAN :
                  IF ok
                  THEN /\ db' = ApplyAll(db, cmds)
                       /\ pipe' = <<>>
                       /\ pc' = "loop"
                       /\ events' = events \cup {"exec"}
                  ELSE /\ db' \in ExecFailed(db, cmds)
                       /\ pipe' = cmds
                       /\ pc' = "fatal"
                       /\ events' = events \cup {"exec", "execfailed"}
          ELSE /\ db' = db
               /\ pipe' = cmds
               /\ pc' = "loop"
               /\ events' = events
    /\ UNCHANGED <<replace, update, dbSize, runs, dbAtStart, resp, reqs>>

\* The decoder reports an error other than EOF: fatal, the queued commands
\* are never sent.
XMLParseError ==
    /\ pc = "loop"
    /\ pc' = "fatal"
    /\ events' = events \cup {"xmlerror"}
    /\ UNCHANGED <<db, replace, update, source, itemCount, pipe, dbSize, runs, dbAtStart, resp, reqs>>

\* EOF: the final pipeline is executed; an empty pipeline sends nothing.
FinalExec ==
    /\ pc = "loop"
    /\ IF Len(pipe) = 0
       THEN /\ db' = db
            /\ pc' = "done"
            /\ events' = events
            /\ pipe' = pipe
       ELSE \E ok \in BOOLEAN :
               IF ok
               THEN /\ db' = ApplyAll(db, pipe)
                    /\ pc' = "done"
                    /\ events' = events \cup {"exec"}
                    /\ pipe' = <<>>
               ELSE /\ db' \in ExecFailed(db, pipe)
                    /\ pc' = "fatal"
                    /\ events' = events \cup {"exec", "execfailed"}
                    /\ pipe' = pipe
    /\ UNCHANGED <<replace, update, source, itemCount, dbSize, runs, dbAtStart, resp, reqs>>

\* The import process exits, normally or through log.Fatalf; its variables
\* go with it.
Exit ==
    /\ pc \in {"done", "fatal"}
    /\ pc' = "idle"
    /\ replace' = FALSE
    /\ update' = FALSE
    /\ source' = <<>>
    /\ itemCount' = 0
    /\ pipe' = <<>>
    /\ dbSize' = 0
    /\ dbAtStart' = db
    /\ events' = {}
    /\ UNCHANGED <<db, runs, resp, reqs>>

(* ------------------------------- server -------------------------------- *)

\* A response: the status, what was written, and how each search function
\* returned.  What is written is an error text, null, a list of {rank, cpe}
\* pairs, one cpe, or the empty array.
Response(endpoint, request, status, kind, body, exact, partial) ==
    [endpoint |-> endpoint, decodes |-> request.decodes, query |-> request.query,
     status |-> status, kind |-> kind, body |-> body, exact |-> exact,
     partial |-> partial]

\* http.Error
Error(endpoint, request, status, exact, partial) ==
    Response(endpoint, request, status, "error", <<>>, exact, partial)

\* json.NewEncoder(w).Encode(res): null for the nil slice.
EncodeList(endpoint, request, res, exact, partial) ==
    Response(endpoint, request, 200, IF Len(res) = 0 THEN "null" ELSE "list", res,
             exact, partial)

\* handleSearch going on to the partial search after a failed exact search
\* as well.
handleSearchPastError(d, body, failing) ==
    IF ~body.decodes
    THEN {Error("search", body, 400, NotRun, NotRun)}
    ELSE UNION {
        IF e.err \/ Len(e.res) = 0
        THEN {IF p.err
              THEN Error("search", body, 500, e, p)
              ELSE EncodeList("search", body, p.res, e, p) :
                 p \in partialSearch(d, body.query, failing)}
        ELSE {EncodeList("search", body, e.res, e, NotRun)} :
        e \in exactSearch(d, body.query, failing)}

\* handleSearch: the responses it may give to a request body.
handleSearch(d, body, failing) ==
    IF ~body.decodes
    THEN {Error("search", body, 400, NotRun, NotRun)}
    ELSE UNION {
        IF e.err
        THEN {Error("search", body, 500, e, NotRun)}
        ELSE IF Len(e.res) = 0
        THEN {IF p.err
              THEN Error("search", body, 500, e, p)
              ELSE EncodeList("search", body, p.res, e, p) :
                 p \in partialSearch(d, body.query, failing)}
        ELSE {EncodeList("search", body, e.res, e, NotRun)} :
        e \in exactSearch(d, body.query, failing)}

\* handleUnique taking the last element of a result instead of the first.
handleUniqueLast(d, body, failing) ==
    IF ~body.decodes
    THEN {Error("unique", body, 400, NotRun, NotRun)}
    ELSE UNION {
        IF ~e.err /\ Len(e.res) > 0
        THEN {Response("unique", body, 200, "cpe", e.res[Len(e.res)][2], e, NotRun)}
        ELSE {IF ~p.err /\ Len(p.res) > 0
              THEN Response("unique", body, 200, "cpe", p.res[Len(p.res)][2], e, p)
              ELSE Response("unique", body, 200, "empty", <<>>, e, p) :
                 p \in partialSearch(d, body.query, failing)} :
        e \in exactSearch(d, body.query, failing)}

\* handleUnique: the responses it may give to a request body.  The last
\* Encode writes []string{}.
handleUnique(d, body, failing) ==
    IF ~body.decodes
    THEN {Error("unique", body, 400, NotRun, NotRun)}
    ELSE UNION {
        IF ~e.err /\ Len(e.res) > 0
        THEN {Response("unique", body, 200, "cpe", e.res[1][2], e, NotRun)}
        ELSE {IF ~p.err /\ Len(p.res) > 0
              THEN Response("unique", body, 200, "cpe", p.res[1][2], e, p)
              ELSE Response("unique", body, 200, "empty", <<>>, e, p) :
                 p \in partialSearch(d, body.query, failing)} :
        e \in exactSearch(d, body.query, failing)}

\* The server process is separate from the import process and only reads
\* the database.  A handler is one step, taken between import runs: every
\* database an import run passes through is also the database some run
\* leaves behind (an XML error ends a run at any item).  resp holds the
\* response of the request just handled until Send has written it out.
HandleSearch ==
    /\ pc = "idle"
    /\ resp = NoResp
    /\ \E body \in Bodies, failing \in Failings :
          resp' \in handleSearch(db, body, failing)
    /\ UNCHANGED <<db, importVars, reqs>>

HandleUnique ==
    /\ pc = "idle"
    /\ resp = NoResp
    /\ \E body \in Bodies, failing \in Failings :
          resp' \in handleUnique(db, body, failing)
    /\ UNCHANGED <<db, importVars, reqs>>

\* The response has been written to the client.
Send ==
    /\ resp # NoResp
    /\ resp' = NoResp
    /\ UNCHANGED <<db, importVars, reqs>>

\* The import command, run again and again.
Next ==
    \/ ImportStart
    \/ Download
    \/ Flush
    \/ Item
    \/ XMLParseError
    \/ FinalExec
    \/ Exit

Spec == Init /\ [][Next]_vars

\* The import command and the server over the same database.
ServeImportStart == StartImport(ServeRuns)

ServeNext ==
    \/ ServeImportStart
    \/ Download
    \/ Flush
    \/ Item
    \/ XMLParseError
    \/ FinalExec
    \/ Exit
    \/ HandleSearch
    \/ HandleUnique
    \/ Send

ServeSpec == Init /\ [][ServeNext]_vars

(* ------------- the server of main.go's first version (sorted sets) ------ *)

\* The characters of the entries in byte order, and a character's place.
Alphabet == <<"1", "2", ":", "A", "P", "T", "_", "a", "c", "m", "o", "p", "s", "t", "x">>
CharCode(c) == CHOOSE i \in DOMAIN Alphabet : Alphabet[i] = c

\* a sorts before b as a byte string.
RECURSIVE LexLessFrom(_, _, _)
LexLessFrom(a, b, i) ==
    IF i > Len(a) THEN i <= Len(b)
    ELSE IF i > Len(b) THEN FALSE
    ELSE IF a[i] = b[i] THEN LexLessFrom(a, b, i + 1)
    ELSE CharCode(a[i]) < CharCode(b[i])

LexLess(a, b) == LexLessFrom(a, b, 1)

\* The temporary keys.
TmpExact   == <<"t", "m", "p", ":", "e", "x", "a", "c", "t">>
TmpPartial == <<"t", "m", "p", ":", "p", "a", "r", "t", "i", "a", "l">>

\* DEL key
Del(d, key) == [k \in DOMAIN d \ {key} |-> d[k]]

\* The destination of ZINTERSTORE / ZUNIONSTORE: overwritten by the result,
\* and deleted when the result is empty.
ZStore(d, key, scores) ==
    IF DOMAIN scores = {} THEN Del(d, key)
    ELSE [k \in DOMAIN d \cup {key} |->
             IF k = key THEN [type |-> "zset", scores |-> scores] ELSE d[k]]

\* Aggregate SUM: the sum of a member's scores over the keys, a key counted
\* as often as it is listed.
RECURSIVE ZSum(_, _, _)
ZSum(d, keys, m) ==
    IF Len(keys) = 0 THEN 0
    ELSE (IF m \in ZMembers(d, Head(keys)) THEN d[Head(keys)].scores[m] ELSE 0)
         + ZSum(d, Tail(keys), m)

\* ZINTERSTORE and ZUNIONSTORE: the scores they store.
ZInter(d, keys) ==
    [m \in {x \in ZMembers(d, keys[1]) : \A i \in DOMAIN keys : x \in ZMembers(d, keys[i])}
        |-> ZSum(d, keys, m)]

ZUnion(d, keys) ==
    [m \in UNION {ZMembers(d, keys[i]) : i \in DOMAIN keys} |-> ZSum(d, keys, m)]

\* ZREVRANGE 0 -1 WITHSCORES over given scores: by score from high to low,
\* equal scores in reverse byte order of the members.
RECURSIVE RevRange(_)
RevRange(scores) ==
    IF DOMAIN scores = {} THEN <<>>
    ELSE LET top == CHOOSE m \in DOMAIN scores :
                        \A n \in DOMAIN scores \ {m} :
                            \/ scores[m] > scores[n]
                            \/ scores[m] = scores[n] /\ LexLess(n, m)
         IN  << <<scores[top], top>> >>
             \o RevRange([n \in DOMAIN scores \ {top} |-> scores[n]])

\* zRevRangeWithScores: a missing key is the empty list.
zRevRangeWithScores(d, key) ==
    IF key \in DOMAIN d THEN RevRange(d[key].scores) ELSE <<>>

\* The keys of exactSearch.
ZExactKeys(words) == [i \in DOMAIN words |-> SKey(ToLower(words[i]))]

\* The keys partialSearch collects: per word those matching s:*word*, a key
\* once for every word it matches.
RECURSIVE ZPartialSets(_, _)
ZPartialSets(d, words) ==
    IF Len(words) = 0 THEN <<>>
    ELSE (CHOOSE p \in Perms(Scan(d, <<"s", ":", "*">> \o ToLower(Head(words)) \o <<"*">>)) : TRUE)
         \o ZPartialSets(d, Tail(words))

\* The keywords and request bodies of the sorted-set server.
ZKeywords == {KwAP, KwTom}
ZBodies == {BadJSON} \cup {[decodes |-> TRUE, query |-> q] : q \in SeqsUpTo(ZKeywords, MaxQuery)}

\* A request moved to a position, and a request answered.
At(r, position, res, err) ==
    [reqs EXCEPT ![r] = [@ EXCEPT !.pc = position, !.res = res, !.err = err]]
Answered(r, status, res, err) ==
    [reqs EXCEPT ![r] = [@ EXCEPT !.pc = "done", !.res = res, !.err = err, !.status = status]]

\* handleSearch after exactSearch has returned: 500 on an error, on to
\* partialSearch when the result is empty, the result otherwise.
AfterExact(r, res, err) ==
    IF err THEN Answered(r, 500, <<>>, TRUE)
    ELSE IF Len(res) = 0 THEN At(r, "partial", <<>>, FALSE)
    ELSE Answered(r, 200, res, FALSE)

\* handleSearch after partialSearch has returned.
AfterPartial(r, res, err) ==
    IF err THEN Answered(r, 500, <<>>, TRUE) ELSE Answered(r, 200, res, FALSE)

\* handleSearch: the body is decoded.
ZHandleSearch(r) ==
    /\ pc = "idle"
    /\ reqs[r].pc = "new"
    /\ r > 1 => reqs[r - 1].pc # "new"
    /\ \E body \in ZBodies :
          reqs' = IF body.decodes
                  THEN [reqs EXCEPT ![r] = [@ EXCEPT !.pc = "exact", !.decodes = TRUE,
                                                     !.query = body.query]]
                  ELSE Answered(r, 400, <<>>, FALSE)
    /\ UNCHANGED <<db, importVars, resp>>

\* exactSearch up to its first store call: nothing for no words, the sorted
\* set itself for one word, ZINTERSTORE into tmp:exact for several.  A
\* ZINTERSTORE that returns an error may or may not have been executed.
ZExactSearch(r) ==
    /\ reqs[r].pc = "exact"
    /\ LET keys == ZExactKeys(reqs[r].query) IN
       IF Len(keys) = 0
       THEN /\ reqs' = AfterExact(r, <<>>, FALSE)
            /\ db' = db
       ELSE \E ok \in BOOLEAN :
            IF Len(keys) = 1
            THEN /\ reqs' = IF ok THEN AfterExact(r, zRevRangeWithScores(db, keys[1]), FALSE)
                            ELSE AfterExact(r, <<>>, TRUE)
                 /\ db' = db
            ELSE IF ok
            THEN /\ db' = ZStore(db, TmpExact, ZInter(db, keys))
                 /\ reqs' = At(r, "exact.read", <<>>, FALSE)
            ELSE /\ db' \in {db, ZStore(db, TmpExact, ZInter(db, keys))}
                 /\ reqs' = AfterExact(r, <<>>, TRUE)
    /\ UNCHANGED <<importVars, resp>>

\* exactSearch: zRevRangeWithScores(tmp), the deferred DEL pending.
ZExactRead(r) ==
    /\ reqs[r].pc = "exact.read"
    /\ \E ok \in BOOLEAN :
          reqs' = IF ok THEN At(r, "exact.del", zRevRangeWithScores(db, TmpExact), FALSE)
                  ELSE At(r, "exact.del", <<>>, TRUE)
    /\ UNCHANGED <<db, importVars, resp>>

\* exactSearch returns: the deferred DEL of tmp:exact runs, its outcome is
\* not looked at, and handleSearch goes on.
ZExactDel(r) ==
    /\ reqs[r].pc = "exact.del"
    /\ \E ok \in BOOLEAN : db' = IF ok THEN Del(db, TmpExact) ELSE db
    /\ reqs' = AfterExact(r, reqs[r].res, reqs[r].err)
    /\ UNCHANGED <<importVars, resp>>

\* partialSearch up to ZUNIONSTORE into tmp:partial: the scans (whose errors
\* are not looked at) find the sets; nothing is stored when there is none.
ZPartialSearch(r) ==
    /\ reqs[r].pc = "partial"
    /\ LET sets == ZPartialSets(db, reqs[r].query) IN
       IF Len(sets) = 0
       THEN /\ reqs' = AfterPartial(r, <<>>, FALSE)
            /\ db' = db
       ELSE \E ok \in BOOLEAN :
            IF ok
            THEN /\ db' = ZStore(db, TmpPartial, ZUnion(db, sets))
                 /\ reqs' = At(r, "partial.read", <<>>, FALSE)
            ELSE /\ db' \in {db, ZStore(db, TmpPartial, ZUnion(db, sets))}
                 /\ reqs' = AfterPartial(r, <<>>, TRUE)
    /\ UNCHANGED <<importVars, resp>>

\* partialSearch: zRevRangeWithScores(tmp), the deferred DEL pending.
ZPartialRead(r) ==
    /\ reqs[r].pc = "partial.read"
    /\ \E ok \in BOOLEAN :
          reqs' = IF ok THEN At(r, "partial.del", zRevRangeWithScores(db, TmpPartial), FALSE)
                  ELSE At(r, "partial.del", <<>>, TRUE)
    /\ UNCHANGED <<db, importVars, resp>>

\* partialSearch returns: the deferred DEL of tmp:partial runs, and
\* handleSearch answers.
ZPartialDel(r) ==
    /\ reqs[r].pc = "partial.del"
    /\ \E ok \in BOOLEAN : db' = IF ok THEN Del(db, TmpPartial) ELSE db
    /\ reqs' = AfterPartial(r, reqs[r].res, reqs[r].err)
    /\ UNCHANGED <<importVars, resp>>

\* The import command, and then the sorted-set server handling requests at
\* the same time, each store call a step of its own.
ZImportStart == StartImport(ServeRuns)

ZServeNext ==
    \/ ZImportStart
    \/ Download
    \/ Flush
    \/ Item
    \/ XMLParseError
    \/ FinalExec
    \/ Exit
    \/ \E r \in Requests : ZHandleSearch(r)
    \/ \E r \in Requests : ZExactSearch(r)
    \/ \E r \in Requests : ZExactRead(r)
    \/ \E r \in Requests : ZExactDel(r)
    \/ \E r \in Requests : ZPartialSearch(r)
    \/ \E r \in Requests : ZPartialRead(r)
    \/ \E r \in Requests : ZPartialDel(r)

ZServeSpec == Init /\ [][ZServeNext]_vars

(* ----------------------- the data model of the index ------------------- *)

\* InvertedIndex[token]: the entries indexed under a token.
InvertedIndex(d, token) ==
    IF WKey(token) \in DOMAIN d THEN d[WKey(token)].members ELSE {}

\* The tokens that have an entry set.
IndexedTokens(d) == {SubSeq(k, 3, Len(k)) : k \in {x \in DOMAIN d : x[1] = "w"}}

\* Every indexed entry.
AllEntries(d) == UNION {InvertedIndex(d, t) : t \in IndexedTokens(d)}

\* Whether RankTable has a score for an entry, and the score (0 without).
HasRank(d, e) == RankKey \in DOMAIN d /\ e \in DOMAIN d[RankKey].scores
RankTable(d, e) == IF HasRank(d, e) THEN d[RankKey].scores[e] ELSE 0

\* k occurs in t as a substring, at any position.
IsSubstring(k, t) ==
    \E i \in 1..(Len(t) - Len(k) + 1) : SubSeq(t, i, i + Len(k) - 1) = k

\* The entries of a result list.
Entries(res) == {res[i][2] : i \in DOMAIN res}

\* The entries under every keyword's lowercased token.
ExactSet(d, words) ==
    {e \in AllEntries(d) : \A i \in DOMAIN words : e \in InvertedIndex(d, ToLower(words[i]))}

\* The entries under any token that has some lowercased keyword as substring.
SubstringSet(d, words) ==
    UNION {InvertedIndex(d, t) :
              t \in {x \in IndexedTokens(d) :
                        \E i \in DOMAIN words : IsSubstring(ToLower(words[i]), x)}}

EntryTom == extract(RecTom).cpeline
EntryST  == extract(RecST).cpeline
TokAp    == <<"a", "p">>
TokTom   == <<"t", "o", "m">>
TokT     == <<"t">>

ExactRan   == resp.exact.calls >= 0
PartialRan == resp.partial.calls >= 0

(* ------------------------------- claims -------------------------------- *)

\* C1: for a keyword list of length >= 1, exactSearch returns exactly the
\* entries that are in InvertedIndex[lowercase(k)] for every keyword k, each
\* once.
C1_ExactIsIntersection ==
    (ExactRan /\ ~resp.exact.err /\ Len(resp.query) >= 1) =>
        /\ Entries(resp.exact.res) = ExactSet(db, resp.query)
        /\ Len(resp.exact.res) = Cardinality(ExactSet(db, resp.query))

\* [apache, tomcat] returns only the entry under both, while [apache] alone
\* has two entries.
C1_Witness ==
    /\ resp.query = <<KwAP, KwTom>>
    /\ ExactRan /\ ~resp.exact.err
    /\ Entries(resp.exact.res) = {EntryTom}
    /\ InvertedIndex(db, TokAp) = {EntryTom, EntryST}

\* C2: for a non-empty keyword list, partialSearch returns exactly the union
\* of the entry sets of the indexed tokens that contain some lowercased
\* keyword as a substring, each entry once, and returns nothing only when no
\* keyword is a substring of an indexed token.
C2_PartialIsSubstringUnion ==
    (PartialRan /\ ~resp.partial.err /\ Len(resp.query) >= 1) =>
        /\ Entries(resp.partial.res) = SubstringSet(db, resp.query)
        /\ Len(resp.partial.res) = Cardinality(SubstringSet(db, resp.query))

\* C3: handleSearch always runs the exact search first; it runs the partial
\* search exactly when the exact search returned nothing without an error;
\* a non-empty exact result is the response, and it is what the index holds
\* under all the keywords.
C3_PartialOnlyAfterEmptyExact ==
    (resp.endpoint = "search" /\ resp.decodes) =>
        /\ ExactRan
        /\ PartialRan <=> (~resp.exact.err /\ Len(resp.exact.res) = 0)
        /\ (~resp.exact.err /\ Len(resp.exact.res) > 0) =>
               /\ resp.status = 200
               /\ resp.kind = "list"
               /\ resp.body = resp.exact.res
        /\ (~resp.exact.err /\ Len(resp.query) >= 1 /\ ExactSet(db, resp.query) # {}) =>
               /\ ~PartialRan
               /\ resp.kind = "list"
               /\ Entries(resp.body) = ExactSet(db, resp.query)

\* "t" is asked for while "tom" is a token and "t" is none: the exact search
\* is empty and the partial search answers.
C3_Witness ==
    /\ resp.endpoint = "search"
    /\ resp.query = <<KwT>>
    /\ TokT \notin IndexedTokens(db)
    /\ TokTom \in IndexedTokens(db)
    /\ ExactRan /\ ~resp.exact.err /\ Len(resp.exact.res) = 0
    /\ PartialRan
    /\ resp.status = 200
    /\ resp.kind = "list"
    /\ EntryTom \in Entries(resp.body)

C5_StoreFailureIsErrorResponse ==
    (resp.exact.err \/ resp.partial.err) =>
        /\ resp.status = 500
        /\ resp.kind = "error"

C7_EmptyQueryRejected ==
    (resp.endpoint = "search" /\ resp.decodes /\ Len(resp.query) = 0) =>
        /\ resp.status = 400
        /\ resp.exact.calls <= 0
        /\ resp.partial.calls <= 0

\* C7 as amended: a search request with an empty keyword list is answered
\* with status 200 and null (on /unique: the empty array), both searches
\* having returned nothing without a store access.
C7_EmptyQueryAnsweredEmpty ==
    (resp.endpoint \in {"search", "unique"} /\ resp.decodes /\ Len(resp.query) = 0) =>
        /\ resp.status = 200
        /\ resp.kind = IF resp.endpoint = "search" THEN "null" ELSE "empty"
        /\ resp.exact.calls = 0
        /\ resp.partial.calls = 0

\* The empty keyword list asked of a populated store.
C7_Witness ==
    /\ resp.endpoint = "search"
    /\ resp.decodes
    /\ Len(resp.query) = 0
    /\ DBSize(db) > 0
    /\ resp.status = 200

\* An import process exists.
InRun == pc # "idle"

\* The entry and the tokens a dictionary record contributes.
EntryOf(name) == extract(name).cpeline
TokensOf(name) ==
    Range(canonize(extract(name).vendor)) \cup Range(canonize(extract(name).product))

\* The entries of the records the current run has read.
SourceEntries == {EntryOf(source[i]) : i \in DOMAIN source}

\* C8: an import started without replace and without update over a store
\* that holds a key ends in a fatal error, having downloaded, flushed and
\* queued nothing, with the store as it was.
C8_RefusedRunTouchesNothing ==
    (InRun /\ DBSize(dbAtStart) > 0 /\ ~replace /\ ~update) =>
        /\ pc = "fatal"
        /\ events \subseteq {"refused", "unreachable"}
        /\ db = dbAtStart
        /\ source = <<>>
        /\ pipe = <<>>

\* A second run is refused.
C8_Witness ==
    /\ pc = "fatal"
    /\ events = {"refused"}
    /\ DBSize(dbAtStart) > 0
    /\ ~replace /\ ~update

\* C9: when an import with replace over a populated store has completed,
\* the store was flushed and holds what the new source gives and no more:
\* every entry of a token set comes from a record of the source with that
\* token, every rank counts the records of the source with that entry, and
\* every query returns entries of the source only.
C9_ReplaceLeavesOnlyNewSource ==
    (pc = "done" /\ replace /\ DBSize(dbAtStart) > 0) =>
        /\ "flush" \in events
        /\ \A t \in IndexedTokens(db) : \A e \in InvertedIndex(db, t) :
               \E i \in DOMAIN source : EntryOf(source[i]) = e /\ t \in TokensOf(source[i])
        /\ \A e \in ZMembers(db, RankKey) :
               RankTable(db, e) = Cardinality({i \in DOMAIN source : EntryOf(source[i]) = e})
        /\ \A k \in DOMAIN db : k[1] = "s" => ZMembers(db, k) \subseteq SourceEntries
        /\ \A q \in Queries :
               \A o \in exactSearch(db, q, {}) \cup partialSearch(db, q, {}) :
                   Entries(o.res) \subseteq SourceEntries

\* A completed replace run whose source is not empty and lacks a record that
\* the store was built from.
C9_Witness ==
    /\ pc = "done"
    /\ replace
    /\ HasRank(dbAtStart, EntryTom)
    /\ EntryTom \in InvertedIndex(dbAtStart, TokTom)
    /\ EntryTom \notin SourceEntries
    /\ EntryST \in InvertedIndex(db, TokAp)

\* A run in update mode: update requested, replace not.
UpdateMode == InRun /\ update /\ ~replace

\* C10: no step of an import run in update mode flushes, and each leaves
\* every token's entry set a superset of what it was, and of what it was
\* before the run; no step of any run lowers a rank, except the flush of a
\* run with replace.
C10_UpdateOnlyGrows ==
    [][ /\ UpdateMode =>
             /\ "flush" \notin events'
             /\ \A t \in IndexedTokens(db) : InvertedIndex(db, t) \subseteq InvertedIndex(db', t)
             /\ \A t \in IndexedTokens(dbAtStart) :
                    InvertedIndex(dbAtStart, t) \subseteq InvertedIndex(db', t)
             /\ \A e \in ZMembers(dbAtStart, RankKey) :
                    RankTable(db', e) >= RankTable(dbAtStart, e)
        /\ \A e \in ZMembers(db, RankKey) :
               RankTable(db', e) < RankTable(db, e) =>
                   /\ replace
                   /\ pc = "flush"
                   /\ "flush" \in events'
      ]_vars

\* A completed update run whose source lacks a record of the earlier run:
\* its entry is still indexed and ranked, next to what the run added.
C10_Witness ==
    /\ pc = "done"
    /\ update /\ ~replace
    /\ "exec" \in events
    /\ EntryTom \notin SourceEntries
    /\ EntryTom \in InvertedIndex(db, TokTom)
    /\ HasRank(db, EntryTom)
    /\ EntryST \in InvertedIndex(db, TokAp)

\* The first five colon-separated fields of a name (all of them when it has
\* fewer), joined by colons.
FirstFive(name) ==
    LET parts == Split(name, ":")
        n     == IF Len(parts) < 5 THEN Len(parts) ELSE 5
    IN  Join(SubSeq(parts, 1, n), ":")

\* The records read so far whose first five fields are e.
RecordsOf(e) == {i \in DOMAIN source : FirstFive(source[i]) = e}

\* C11: every record queues exactly one increment by 1 of its entry's rank,
\* whatever the number of its tokens; when an import into an empty store has
\* completed, the rank of every entry is the number of records of the source
\* whose first five fields are that entry, no other entry is ranked, and
\* every record's entry is in the entry set of each token of its vendor and
\* of its product - for every number of records, the last batch included.
C11_RankCountsRecords ==
    /\ pc = "loop" =>
           /\ Cardinality({j \in DOMAIN pipe : pipe[j].key = RankKey}) = itemCount % batchSize
           /\ \A j \in DOMAIN pipe : pipe[j].key = RankKey => pipe[j].incr = 1
    /\ (pc = "done" /\ DBSize(dbAtStart) = 0) =>
           /\ \A e \in ZMembers(db, RankKey) \cup {FirstFive(source[i]) : i \in DOMAIN source} :
                  RankTable(db, e) = Cardinality(RecordsOf(e))
           /\ \A i \in DOMAIN source : \A t \in TokensOf(source[i]) :
                  FirstFive(source[i]) \in InvertedIndex(db, t)

\* A completed import of three records into an empty store, one full batch
\* and a last batch of one record: the entry read twice has rank 2, and the
\* record of the last batch, with three tokens, has rank 1 and is indexed.
C11_Witness ==
    /\ pc = "done"
    /\ DBSize(dbAtStart) = 0
    /\ source = <<RecTom, RecTom, RecST>>
    /\ Len(source) % batchSize # 0
    /\ RankTable(db, EntryTom) = 2
    /\ RankTable(db, EntryST) = 1
    /\ EntryST \in InvertedIndex(db, <<"s">>)
    /\ EntryST \in InvertedIndex(db, TokT)

\* A name of fewer than five colon-separated fields.
Malformed(name) == Len(Split(name, ":")) < 5

\* C12: the raw name of a record of fewer than five fields, which the
\* import reads like any other record, is in the entry set of no token, the
\* empty token included, and no exact search returns it.
C12_MalformedNotIndexed ==
    \A name \in {n \in Dictionary : Malformed(n)} :
        /\ \A t \in IndexedTokens(db) \cup {<<>>} : name \notin InvertedIndex(db, t)
        /\ \A q \in Queries : \A o \in exactSearch(db, q, {}) : name \notin Entries(o.res)

\* A keyword with an underscore in it.
HasUnderscore(w) == "_" \in Range(w)

\* The entries under the first canonize token of every keyword.
CanonSet(d, words) ==
    {e \in AllEntries(d) :
        \A i \in DOMAIN words : e \in InvertedIndex(d, canonize(words[i])[1])}

RECURSIVE CmdsOf(_)
CmdsOf(names) ==
    IF Len(names) = 0 THEN <<>> ELSE ItemCmds(Head(names)) \o CmdsOf(Tail(names))

\* The store the current run builds on: empty once it has flushed.
RunBase == IF "flush" \in events THEN EmptyDB ELSE dbAtStart

\* The store after the first n records of the source, and the number of
\* records in the batches completed before the batch of record n.
AfterRecords(n) == ApplyAll(RunBase, CmdsOf(SubSeq(source, 1, n)))
BatchesBefore(n) == IF n = 0 THEN 0 ELSE ((n - 1) \div batchSize) * batchSize

\* C14: the store changes in batch flushes only; a flush is all or nothing,
\* and its failure ends the run: while records are read the store holds the
\* mutations of the completed batches, and when the run has stopped on a
\* failed flush it holds those of the batches completed before the failed
\* one and no other.
C14_FlushAllOrNothing ==
    /\ pc = "loop" => db = AfterRecords((Len(source) \div batchSize) * batchSize)
    /\ (pc = "fatal" /\ "execfailed" \in events) =>
           db = AfterRecords(BatchesBefore(Len(source)))

\* The index and rank data: the store without the temporary keys.
IndexData(d) == [k \in DOMAIN d \ {TmpExact, TmpPartial} |-> d[k]]

\* What /search answers to a query when the request runs alone and the
\* store does not fail: the exact result, or the partial one when that is
\* empty.
Alone(d, words) ==
    LET keys  == ZExactKeys(words)
        exact == IF Len(keys) = 0 THEN <<>>
                 ELSE IF Len(keys) = 1 THEN zRevRangeWithScores(d, keys[1])
                 ELSE RevRange(ZInter(d, keys))
        sets  == ZPartialSets(d, words)
    IN  IF Len(exact) > 0 THEN exact
        ELSE IF Len(sets) = 0 THEN <<>>
        ELSE RevRange(ZUnion(d, sets))

\* Every request answered with a result has the result it would have alone.
ResultAsAlone ==
    \A r \in Requests :
        (reqs[r].pc = "done" /\ reqs[r].status = 200) =>
            reqs[r].res = Alone(IndexData(db), reqs[r].query)

\* No request is being handled, and some have been.
AllFinished ==
    /\ \E r \in Requests : reqs[r].pc = "done"
    /\ \A r \in Requests : reqs[r].pc \in {"new", "done"}

\* C15: the temporary keys a search creates are its own and are removed on
\* every way out: however the requests handled at the same time interleave,
\* each result is the result the request would have alone, once all
\* requests have finished the store holds no temporary key, and the index
\* and rank data are what they were.
C15_TmpKeysArePrivate ==
    /\ ResultAsAlone
    /\ AllFinished => (TmpExact \notin DOMAIN db /\ TmpPartial \notin DOMAIN db)
    /\ (\E r \in Requests : reqs[r].pc # "new") => IndexData(db) = dbAtStart

====
